---- MODULE Spec2Model ----
(***************************************************************************)
(* State-machine model of websocket-web: the Standard (credit pool)        *)
(* adapter of src/src/standard.rs, the closed() observers of both          *)
(* adapters, the connection's life cycle (connect, split, close, drop),    *)
(* and the browser transport at its callback boundary.                     *)
(***************************************************************************)
EXTENDS Integers, Sequences, FiniteSets, TLC

(***************************************************************************)
(* Bounds of the model.                                                    *)
(***************************************************************************)
\* Number of message events the transport fires during one connection.
MaxMsgs == 3
\* Largest byte length of one message.
MaxMsgLen == 1
\* Largest receive ceiling a builder is configured with.
MaxReceiveBufferSize == 2
\* Number of closed() futures the caller creates.
NumObservers == 2
\* Number of messages or buffers the caller sends during one connection.
MaxSends == 2
\* Largest byte length of a sent message or written buffer.
MaxBufLen == 2
\* Largest capacity of a destination buffer handed to poll_read.
MaxCap == 2
\* The send threshold a builder is configured with.
MaxSendBufferSize == 1
MaxReadLen == 3

\* Defaults of the standard adapter.
DEFAULT_SEND_BUFFER_SIZE == 4194304
DEFAULT_RECEIVE_BUFFER_SIZE == 67108864

(***************************************************************************)
(* Option<T>: None is the empty sequence, Some(x) the one-element one.     *)
(***************************************************************************)
None == <<>>
Some(x) == <<x>>
IsSome(o) == o # <<>>
Unwrap(o) == o[1]

(***************************************************************************)
(* Message model (lib.rs).                                                 *)
(***************************************************************************)
MsgKinds == {"Text", "Binary"}

\* Msg::len: byte length of the payload, whatever the variant.
MsgLen(m) == Len(m.data)

\* The payload of the i-th message of a workload.  tests/tests.rs sends len
\* copies of (i as u8); here the bytes of a message also differ from each
\* other, so that their order is visible.
TestData(i, len) == [j \in 1..len |-> (16 * i + j) % 256]

(***************************************************************************)
(* Close codes (closed.rs).  A CloseCode is a record: the variant's name   *)
(* and, for Other, the carried 16-bit value (0 for the named variants).    *)
(***************************************************************************)
NamedCloseCodes ==
    [v \in ((1000..1003) \cup (1005..1015)) |->
        CASE v = 1000 -> "NormalClosure"
          [] v = 1001 -> "GoingAway"
          [] v = 1002 -> "ProtocolError"
          [] v = 1003 -> "UnsupportedData"
          [] v = 1005 -> "NoStatusRcvd"
          [] v = 1006 -> "AbnormalClosure"
          [] v = 1007 -> "InvalidFramePayloadData"
          [] v = 1008 -> "PolicyViolation"
          [] v = 1009 -> "MessageTooBig"
          [] v = 1010 -> "MandatoryExt"
          [] v = 1011 -> "InternalError"
          [] v = 1012 -> "ServiceRestart"
          [] v = 1013 -> "TryAgainLater"
          [] v = 1014 -> "BadGateway"
          [] v = 1015 -> "TlsHandshake"]

CloseCodeNamed(name) == [variant |-> name, value |-> 0]
CloseCodeOther(v) == [variant |-> "Other", value |-> v]

\* Faulty variant of the conversion: 1004 is taken for a named code.
CloseCodeFromU16_reserved(v) ==
    IF v = 1004 THEN CloseCodeNamed("NoStatusRcvd")
    ELSE IF v \in DOMAIN NamedCloseCodes THEN CloseCodeNamed(NamedCloseCodes[v])
    ELSE CloseCodeOther(v)

\* impl From<u16> for CloseCode
CloseCodeFromU16(v) ==
    IF v \in DOMAIN NamedCloseCodes THEN CloseCodeNamed(NamedCloseCodes[v])
    ELSE CloseCodeOther(v)

ClosedReason(code, reason, was_clean) ==
    [code |-> code, reason |-> reason, was_clean |-> was_clean]

(***************************************************************************)
(* What the transport can signal.                                          *)
(***************************************************************************)
\* CloseEvent objects the browser hands to on_close.
CloseEvents ==
    { [code |-> 3999, reason |-> "CLOSE-123", was_clean |-> TRUE],
      [code |-> 1006, reason |-> "", was_clean |-> FALSE] }

\* Settlements of WebSocketStream.closed: fulfilled with {closeCode, reason}
\* or rejected with an error whose message is msg.
StreamClosedOutcomes ==
    { [ok |-> TRUE, closeCode |-> 3999, reason |-> "CLOSE-123", msg |-> ""],
      [ok |-> FALSE, closeCode |-> 0, reason |-> "", msg |-> "WebSocket error"] }

\* Arguments of an explicit close by the caller.
CloseArgs ==
    { [code |-> 1000, reason |-> ""] }

(***************************************************************************)
(* State.                                                                  *)
(***************************************************************************)
VARIABLES
    interface,            \* Info.interface: "Standard" or "Stream"
    receive_buffer_size,  \* builder.receive_buffer_size, the ceiling B
    ready_state,          \* web_sys::WebSocket.readyState
    permits,              \* available permits of the semaphore `buffered`
    tx,                   \* TRUE while the RefCell `tx` holds Some(sender)
    rx,                   \* messages queued in the unbounded channel
    closed_rx,            \* value of the watch channel: Option<ClosedReason>
    ws_closed,            \* state of the promise WebSocketStream.closed
    guard_closed,         \* Guard.closed
    sender_alive,         \* the Sender has not been consumed by close()
    close_calls,          \* close calls issued to the native socket
    observers,            \* the Closed futures handed out by closed()
    recv_result,          \* what the last Receiver::poll_next returned
    n_produced,           \* history: message events fired by the transport
    produced_bytes,       \* history: total byte length of those messages
    n_delivered,          \* history: messages returned to the caller
    overflow,             \* history: the first overflow (at = 0: none yet)
    \* life cycle of the connection
    pin,                  \* builder.interface: Option<Interface>
    stream_supported,     \* Interface::Stream.is_supported()
    standard_supported,   \* Interface::Standard.is_supported()
    conn,                 \* outcome of connect(): "builder" before the call
    info_interface,       \* Info.interface, what WebSocket::interface() returns
    facade,               \* the WebSocket exists (not split, closed or dropped)
    receiver_alive,       \* the receiver (in the facade or split off) exists
    sink_closed,          \* the sink-level close (poll_close) has completed
    guard_dropped,        \* the last Rc<Guard> is gone: Guard::drop has run
    panicked,             \* a panic aborted the program
    \* send path, echo transport, stream receiver, byte-stream adapter
    mode,                 \* how the caller uses the connection: "msg" | "bytes"
    send_buffer_size,     \* standard::Sender.send_buffer_size
    sent,                 \* history: frames handed to the transport's send/write
    wire,                 \* frames the echoing peer has yet to return
    writing,              \* Sender.writing: Option of the write promise
                          \* (Stream) or of the readiness wait (Standard)
    native_pending,       \* native write promises not yet settled
    readable,             \* chunks queued in the WebSocketStream's readable
    reading,              \* stream::Receiver.reading: Option of the read promise
    io_send,              \* result of the caller's last send-side call
    read_buf,             \* WebSocket.read_buf / WebSocketReceiver.read_buf
    n_read,               \* history: number of bytes poll_read has returned
    rd_result,            \* result of the caller's last poll_read
    \* conversions between CloseCode and u16
    u16_value,            \* a u16 to convert
    close_code,           \* Option: CloseCode::from(u16_value)
    u16_back,             \* Option: u16::from(close_code)
    \* stream::Sender's flush
    flushing              \* stream::Sender.flushing: Option of writer.ready()

ioVars == << mode, send_buffer_size, sent, wire, writing, native_pending,
             readable, reading, io_send, read_buf, n_read, rd_result >>

codecVars == << u16_value, close_code, u16_back >>

\* What only the conversions and the flush touch.
sideVars == << codecVars, flushing >>

lifeVars == << pin, stream_supported, standard_supported, conn,
               info_interface, facade,
               receiver_alive, sink_closed, guard_dropped, panicked >>

vars == << interface, receive_buffer_size, ready_state, permits, tx, rx,
           closed_rx, ws_closed, guard_closed, sender_alive, close_calls,
           observers, recv_result, n_produced, produced_bytes, n_delivered,
           overflow, lifeVars, ioVars, sideVars >>

Observers == 1..NumObservers

\* io::Result<Msg> items of the receive stream, and Pending / end-of-stream.
\* kind and text are the io::Error's ErrorKind and message.
Result(tag, item, kind, text) ==
    [tag |-> tag, item |-> item, kind |-> kind, text |-> text]

\* Result of a send-side call (poll_ready, start_send, poll_write).  kind and
\* text are the io::Error's ErrorKind and message: the Standard sender's only
\* error is ConnectionReset "WebSocket not open"; the Stream sender's carries
\* the message of the JavaScript error, which is not followed here.  resumed
\* tells whether the call polled a readiness wait left pending by an earlier
\* call.
SendResult(op, tag, n) ==
    [op |-> op, tag |-> tag, n |-> n,
     kind |-> IF tag = "Err" THEN "ConnectionReset" ELSE "",
     text |-> IF tag = "Err" /\ interface = "Standard"
              THEN "WebSocket not open" ELSE "",
     resumed |-> FALSE]

\* Result of a poll_read: the bytes put into the caller's buffer, and how
\* many messages the call took from the receiver.
ReadResult(tag, part, pulled) ==
    [tag |-> tag, part |-> part, pulled |-> pulled]

\* The send path and the byte-stream adapter as connect() leaves them.
IoIdle ==
    /\ sent = <<>>
    /\ wire = <<>>
    /\ writing = None
    /\ native_pending = 0
    /\ readable = <<>>
    /\ reading = None
    /\ io_send = SendResult("none", "Idle", 0)
    /\ read_buf = <<>>
    /\ n_read = 0
    /\ rd_result = ReadResult("Idle", <<>>, 0)
    /\ u16_value = 0
    /\ close_code = None
    /\ u16_back = None
    /\ flushing = None

Init ==
    /\ interface \in {"Standard", "Stream"}
    /\ receive_buffer_size \in 0..MaxReceiveBufferSize
    /\ ready_state = "OPEN"
    /\ permits = receive_buffer_size
    /\ tx = TRUE
    /\ rx = <<>>
    /\ closed_rx = None
    /\ ws_closed = None
    /\ guard_closed = FALSE
    /\ sender_alive = TRUE
    /\ close_calls = <<>>
    /\ observers = [o \in Observers |-> [state |-> "absent", reason |-> None]]
    /\ recv_result = Result("Idle", None, "", "")
    /\ n_produced = 0
    /\ produced_bytes = 0
    /\ n_delivered = 0
    /\ overflow = [at |-> 0, delivered |-> 0]
    \* connect() has returned this connection; its life cycle is not followed
    /\ pin = None
    /\ stream_supported = (interface = "Stream")
    /\ standard_supported = TRUE
    /\ conn = [tag |-> "Ok", kind |-> "", msg |-> ""]
    /\ info_interface = interface
    /\ facade = TRUE
    /\ receiver_alive = TRUE
    /\ sink_closed = FALSE
    /\ guard_dropped = FALSE
    /\ panicked = FALSE
    /\ mode = "msg"
    /\ send_buffer_size = DEFAULT_SEND_BUFFER_SIZE
    /\ IoIdle

(***************************************************************************)
(* Primitives the handlers are built from.                                 *)
(***************************************************************************)
\* Faulty variants of try_acquire_many: one grants every request, one refuses
\* a request for exactly the available permits.
try_acquire_many_unchecked(avail, n) == TRUE
try_acquire_many_strict(avail, n) == n < avail

\* Semaphore::try_acquire_many: granted iff n permits are available.
try_acquire_many(avail, n) == n <= avail

\* Faulty variant of add_permits: the permits are not given back.
add_permits_none(avail, n) == avail

\* Semaphore::add_permits
add_permits(avail, n) == avail + n

\* Faulty variants of unbounded_send: one queues at the front, one drops the
\* item when the queue already holds a message.
unbounded_send_front(q, item) == <<item>> \o q
unbounded_send_lossy(q, item) == IF q = <<>> THEN <<item>> ELSE q

\* UnboundedSender::unbounded_send: the item goes to the back of the queue.
unbounded_send(q, item) == Append(q, item)

\* Faulty variant of send_replace: the new value is lost.
send_replace_lost(old, new) == old

\* watch::Sender::send_replace: the new value unconditionally replaces the old.
send_replace(old, new) == new

\* Faulty variant of replace: the cell keeps its old content.
replace_kept(cell, value) == cell

\* RefCell::replace on the cell holding the channel's only sender.
replace(cell, value) == value

\* The reason the overflow branch of on_msg records.
OverflowReason ==
    ClosedReason(CloseCodeNamed("MessageTooBig"), "receive buffer overflow", FALSE)

\* Faulty variant of CloseEventReason: every closure is reported clean.
CloseEventReason_clean(event) ==
    ClosedReason(CloseCodeFromU16(event.code), event.reason, TRUE)

\* The reason on_close builds from the CloseEvent.
CloseEventReason(event) ==
    ClosedReason(CloseCodeFromU16(event.code), event.reason, event.was_clean)

\* Faulty variant of TerminalResult: every recorded closure ends the stream
\* normally, clean or not.
TerminalResult_ignoring_clean(c) ==
    IF IsSome(c) THEN Result("End", None, "", "")
    ELSE Result("Err", None, "ConnectionReset", "WebSocket closed")

\* Receiver::poll_next once the queue is exhausted and closed.
TerminalResult(c) ==
    IF IsSome(c) /\ Unwrap(c).was_clean THEN Result("End", None, "", "")
    ELSE IF IsSome(c) THEN Result("Err", None, "ConnectionReset", Unwrap(c).reason)
    ELSE Result("Err", None, "ConnectionReset", "WebSocket closed")

\* Faulty variant of StandardClosed: the future never resolves.
StandardClosed_never(c) == None

\* standard::Inner::closed: wait_for(|c| c.is_some()), then the value's clone.
\* None: the future stays pending.  (The watch sender lives in the leaked
\* closures, so wait_for never fails.)
StandardClosed(c) == IF IsSome(c) THEN Some(Unwrap(c)) ELSE None

\* Faulty variant of StreamClosed: the future never resolves.
StreamClosed_never(p) == None

\* stream::Inner::closed: the settled promise mapped to a ClosedReason.
StreamClosed(p) ==
    IF ~IsSome(p) THEN None
    ELSE IF Unwrap(p).ok
    THEN \* as_f64().unwrap() as u16: a saturating cast
         Some(ClosedReason(CloseCodeFromU16(IF Unwrap(p).closeCode > 65535
                                            THEN 65535
                                            ELSE Unwrap(p).closeCode),
                           Unwrap(p).reason, TRUE))
    ELSE Some(ClosedReason(CloseCodeNamed("AbnormalClosure"), Unwrap(p).msg, FALSE))

(***************************************************************************)
(* Standard adapter: the callbacks installed by Inner::new.                *)
(***************************************************************************)
\* on_msg, from the message it has decoded out of the event.
OnMsgHandler(msg) ==
    LET seq == n_produced + 1
    IN  /\ n_produced' = seq
        /\ produced_bytes' = produced_bytes + MsgLen(msg)
        /\ IF try_acquire_many(permits, MsgLen(msg))
           THEN /\ IF tx
                   THEN \* unbounded_send, which fails once the receiver has
                        \* been dropped (let _ =); the permit is forgotten
                        /\ rx' = IF receiver_alive
                                 THEN unbounded_send(rx, [seq |-> seq, msg |-> msg])
                                 ELSE rx
                        /\ permits' = permits - MsgLen(msg)
                   ELSE \* early return: the permit is dropped, i.e. given back
                        UNCHANGED << rx, permits >>
                /\ UNCHANGED << closed_rx, tx, overflow >>
           ELSE /\ closed_rx' = send_replace(closed_rx, Some(OverflowReason))
                /\ tx' = replace(tx, FALSE)
                /\ overflow' = IF overflow.at = 0
                               THEN [at |-> seq, delivered |-> n_delivered]
                               ELSE overflow
                /\ UNCHANGED << rx, permits >>

\* on_msg: the transport delivers its next message.
OnMsg(kind, len) ==
    /\ interface = "Standard"
    /\ ready_state \in {"OPEN", "CLOSING"}
    /\ n_produced < MaxMsgs
    /\ OnMsgHandler([kind |-> kind, data |-> TestData(n_produced + 1, len)])
    /\ UNCHANGED << interface, receive_buffer_size, ready_state, ws_closed,
                    guard_closed, sender_alive, close_calls, observers,
                    recv_result, n_delivered >>
    /\ UNCHANGED << lifeVars, ioVars, sideVars >>

\* on_close: the transport fires its close event (once; no events follow it).
OnClose(event) ==
    /\ interface = "Standard"
    /\ ready_state # "CLOSED"
    /\ ready_state' = "CLOSED"
    /\ closed_rx' = send_replace(closed_rx, Some(CloseEventReason(event)))
    /\ tx' = replace(tx, FALSE)
    /\ UNCHANGED << interface, receive_buffer_size, permits, rx, ws_closed,
                    guard_closed, sender_alive, close_calls, observers,
                    recv_result, n_produced, produced_bytes, n_delivered,
                    overflow >>
    /\ UNCHANGED << lifeVars, ioVars, sideVars >>

(***************************************************************************)
(* Standard adapter: Receiver::poll_next.                                  *)
(***************************************************************************)
PollNext ==
    /\ interface = "Standard"
    /\ receiver_alive
    /\ IF rx # <<>>
       THEN /\ rx' = Tail(rx)
            /\ permits' = add_permits(permits, MsgLen(Head(rx).msg))
            /\ recv_result' = Result("Msg", Some(Head(rx)), "", "")
            /\ n_delivered' = n_delivered + 1
       ELSE /\ recv_result' = IF tx THEN Result("Pending", None, "", "")
                              ELSE TerminalResult(closed_rx)
            /\ UNCHANGED << rx, permits, n_delivered >>
    /\ UNCHANGED << interface, receive_buffer_size, ready_state, tx, closed_rx,
                    ws_closed, guard_closed, sender_alive, close_calls,
                    observers, n_produced, produced_bytes, overflow >>
    /\ UNCHANGED << lifeVars, ioVars, sideVars >>

(***************************************************************************)
(* Explicit close: standard::Sender::close and stream::Sender::close.      *)
(***************************************************************************)
SenderClose(args) ==
    /\ sender_alive
    /\ close_calls' = Append(close_calls, args)
    /\ ready_state' = IF interface = "Standard" /\ ready_state = "OPEN"
                      THEN "CLOSING" ELSE ready_state
    /\ guard_closed' = TRUE
    /\ sender_alive' = FALSE
    /\ UNCHANGED << interface, receive_buffer_size, permits, tx, rx, closed_rx,
                    ws_closed, observers, recv_result, n_produced,
                    produced_bytes, n_delivered, overflow >>
    /\ UNCHANGED << lifeVars, ioVars, sideVars >>

(***************************************************************************)
(* Stream adapter: the promise WebSocketStream.closed settles.             *)
(***************************************************************************)
StreamClosedSettle(outcome) ==
    /\ interface = "Stream"
    /\ ws_closed = None
    /\ ws_closed' = Some(outcome)
    /\ UNCHANGED << interface, receive_buffer_size, ready_state, permits, tx,
                    rx, closed_rx, guard_closed, sender_alive, close_calls,
                    observers, recv_result, n_produced, produced_bytes,
                    n_delivered, overflow >>
    /\ UNCHANGED << lifeVars, ioVars, sideVars >>

(***************************************************************************)
(* closed(): WebSocket::closed creates a future, the executor polls it.    *)
(***************************************************************************)
\* The o-th call of closed(); it borrows the facade, which lives at most
\* until the sender is consumed.  The future it returns borrows nothing.
CallClosed(o) ==
    /\ facade /\ sender_alive
    /\ observers[o].state = "absent"
    /\ \A p \in Observers : p < o => observers[p].state # "absent"
    /\ observers' = [observers EXCEPT ![o].state = "pending"]
    /\ UNCHANGED << interface, receive_buffer_size, ready_state, permits, tx,
                    rx, closed_rx, ws_closed, guard_closed, sender_alive,
                    close_calls, recv_result, n_produced, produced_bytes,
                    n_delivered, overflow >>
    /\ UNCHANGED << lifeVars, ioVars, sideVars >>

\* What a poll of a Closed future yields now: Some(reason), or None (pending).
ClosedPoll ==
    IF interface = "Standard" THEN StandardClosed(closed_rx)
    ELSE StreamClosed(ws_closed)

PollClosed(o) ==
    /\ observers[o].state = "pending"
    /\ observers' = IF IsSome(ClosedPoll)
                    THEN [observers EXCEPT ![o] =
                             [state |-> "resolved", reason |-> ClosedPoll]]
                    ELSE observers
    /\ UNCHANGED << interface, receive_buffer_size, ready_state, permits, tx,
                    rx, closed_rx, ws_closed, guard_closed, sender_alive,
                    close_calls, recv_result, n_produced, produced_bytes,
                    n_delivered, overflow >>
    /\ UNCHANGED << lifeVars, ioVars, sideVars >>

(***************************************************************************)
(* Specifications.                                                         *)
(***************************************************************************)
Next ==
    \/ \E kind \in MsgKinds, len \in 0..MaxMsgLen : OnMsg(kind, len)
    \/ \E event \in CloseEvents : OnClose(event)
    \/ PollNext
    \/ \E args \in CloseArgs : SenderClose(args)
    \/ \E outcome \in StreamClosedOutcomes : StreamClosedSettle(outcome)
    \/ \E o \in Observers : CallClosed(o)
    \/ \E o \in Observers : PollClosed(o)

Spec == Init /\ [][Next]_vars

\* The executor polls a Closed future that is awaited again and again.
FairSpec == Spec /\ \A o \in Observers : WF_vars(PollClosed(o))

(***************************************************************************)
(* Life cycle of a connection: connect, split, close, sink close, drop.    *)
(***************************************************************************)
Interfaces == {"Stream", "Standard"}

\* What close() passes to close_with_reason.
NormalRequest == [code |-> CloseCodeNamed("NormalClosure"), reason |-> ""]

\* (code, reason) pairs a caller passes to close_with_reason.
CloseRequests ==
    { [code |-> CloseCodeNamed("NormalClosure"), reason |-> "Goodbye!"],
      [code |-> CloseCodeNamed("ProtocolError"), reason |-> "x"],
      [code |-> CloseCodeOther(2999), reason |-> "x"],
      [code |-> CloseCodeOther(3000), reason |-> "x"],
      [code |-> CloseCodeOther(4999), reason |-> "x"],
      [code |-> CloseCodeOther(5000), reason |-> "x"] }

\* Faulty variant of the conversion: every code becomes 1000.
CloseCodeToU16_normal(c) == 1000

\* impl From<CloseCode> for u16
CloseCodeToU16(c) ==
    CASE c.variant = "NormalClosure" -> 1000
      [] c.variant = "GoingAway" -> 1001
      [] c.variant = "ProtocolError" -> 1002
      [] c.variant = "UnsupportedData" -> 1003
      [] c.variant = "NoStatusRcvd" -> 1005
      [] c.variant = "AbnormalClosure" -> 1006
      [] c.variant = "InvalidFramePayloadData" -> 1007
      [] c.variant = "PolicyViolation" -> 1008
      [] c.variant = "MessageTooBig" -> 1009
      [] c.variant = "MandatoryExt" -> 1010
      [] c.variant = "InternalError" -> 1011
      [] c.variant = "ServiceRestart" -> 1012
      [] c.variant = "TryAgainLater" -> 1013
      [] c.variant = "BadGateway" -> 1014
      [] c.variant = "TlsHandshake" -> 1015
      [] c.variant = "Other" -> c.value

\* CloseCode::is_valid: NormalClosure, or Other with a value in 3000..4999.
is_valid(c) ==
    \/ c.variant = "NormalClosure"
    \/ c.variant = "Other" /\ 3000 <= c.value /\ c.value <= 4999

\* close_with_reason goes on to the adapter's close unless the code is
\* invalid, in which case it panics.
close_with_reason_unguarded(c) == TRUE
close_with_reason_proceeds(c) == is_valid(c)

\* socket.close() without arguments, socket.close(null), writer.close():
\* a close that names no code.
NoCode == 0
DefaultClose == [code |-> NoCode, reason |-> ""]

\* Sender::close marks the guard: self.socket.closed.set(true).
closed_set_skipped(flag) == flag
closed_set(flag) == TRUE

\* The guard's flag after the sink-level close: poll_close leaves it alone.
poll_close_flag(flag) == flag

\* Drop for Guard: the close it issues, appended to the calls so far.
GuardDrop_never(calls, flag) == calls
GuardDrop_unguarded(calls, flag) == Append(calls, DefaultClose)
GuardDrop(calls, flag) ==
    IF ~flag THEN Append(calls, DefaultClose) ELSE calls

\* The ready state after a close call on the standard socket.
ReadyStateAfterClose ==
    IF interface = "Standard" /\ ready_state = "OPEN" THEN "CLOSING"
    ELSE ready_state

\* connect(): the pinned interface, else Stream when available, else Standard.
SelectInterface_standard_first(p, stream_ok) ==
    IF IsSome(p) THEN Unwrap(p) ELSE "Standard"
SelectInterface(p, stream_ok) ==
    IF IsSome(p) THEN Unwrap(p)
    ELSE IF stream_ok THEN "Stream" ELSE "Standard"

\* Interface::is_supported
is_supported(i) ==
    IF i = "Stream" THEN stream_supported ELSE standard_supported

ConnResult(tag, kind, msg) == [tag |-> tag, kind |-> kind, msg |-> msg]

\* The Info each adapter's Inner::new returns names its own interface.
InfoInterface(i) == IF i = "Stream" THEN "Stream" ELSE "Standard"

\* The state before connect(): a builder, and what the runtime offers.
LifeInit ==
    /\ interface = "Unconnected"
    /\ receive_buffer_size = MaxReceiveBufferSize
    /\ ready_state = "CONNECTING"
    /\ permits = receive_buffer_size
    /\ tx = TRUE
    /\ rx = <<>>
    /\ closed_rx = None
    /\ ws_closed = None
    /\ guard_closed = FALSE
    /\ sender_alive = FALSE
    /\ close_calls = <<>>
    /\ observers = [o \in Observers |-> [state |-> "absent", reason |-> None]]
    /\ recv_result = Result("Idle", None, "", "")
    /\ n_produced = 0
    /\ produced_bytes = 0
    /\ n_delivered = 0
    /\ overflow = [at |-> 0, delivered |-> 0]
    /\ pin \in {None} \cup {Some(i) : i \in Interfaces}
    /\ stream_supported \in BOOLEAN
    /\ standard_supported \in BOOLEAN
    /\ conn = ConnResult("builder", "", "")
    /\ info_interface = "Unconnected"
    /\ facade = FALSE
    /\ receiver_alive = FALSE
    /\ sink_closed = FALSE
    /\ guard_dropped = FALSE
    /\ panicked = FALSE
    /\ mode = "msg"
    /\ send_buffer_size = DEFAULT_SEND_BUFFER_SIZE
    /\ IoIdle

recvVars == << receive_buffer_size, permits, tx, rx, closed_rx, ws_closed,
               observers, recv_result, n_produced, produced_bytes,
               n_delivered, overflow >>

\* WebSocketBuilder::connect, with the adapter's Inner::new; opened tells
\* whether the transport reaches the open state.  A failed open drops the
\* only Rc<Guard>.
Connect(opened) ==
    /\ conn.tag = "builder"
    /\ LET i == SelectInterface(pin, stream_supported) IN
       IF ~is_supported(i)
       THEN /\ conn' = ConnResult("Err", "Unsupported",
                          IF i = "Stream" THEN "WebSocketStream not supported"
                          ELSE "WebSocket not supported")
            /\ UNCHANGED << interface, info_interface, ready_state,
                            sender_alive, facade, receiver_alive, close_calls,
                            guard_dropped >>
       ELSE IF ~opened
       THEN /\ conn' = ConnResult("Err", "ConnectionRefused", "")
            /\ close_calls' = GuardDrop(close_calls, guard_closed)
            /\ guard_dropped' = TRUE
            /\ ready_state' = "CLOSED"
            /\ UNCHANGED << interface, info_interface, sender_alive, facade,
                            receiver_alive >>
       ELSE /\ conn' = ConnResult("Ok", "", "")
            /\ interface' = i
            /\ info_interface' = InfoInterface(i)
            /\ ready_state' = "OPEN"
            /\ sender_alive' = TRUE
            /\ receiver_alive' = TRUE
            /\ facade' = TRUE
            /\ UNCHANGED << close_calls, guard_dropped >>
    /\ UNCHANGED << recvVars, guard_closed, pin, stream_supported,
                    standard_supported, sink_closed, panicked >>
    /\ UNCHANGED << ioVars, sideVars >>

\* WebSocket::into_split hands the partial-read buffer to the receiver half
\* of a Stream connection; the receiver half of a Standard connection starts
\* with read_buf: Vec::new().
split_read_buf(buf) == IF interface = "Standard" THEN <<>> ELSE buf

\* WebSocket::into_split
IntoSplit ==
    /\ facade /\ ~panicked
    /\ facade' = FALSE
    /\ read_buf' = split_read_buf(read_buf)
    /\ UNCHANGED << interface, ready_state, guard_closed, sender_alive,
                    close_calls, recvVars, pin, stream_supported,
                    standard_supported, conn, info_interface, receiver_alive,
                    sink_closed, guard_dropped, panicked >>
    /\ UNCHANGED << mode, send_buffer_size, sent, wire, writing,
                    native_pending, readable, reading, io_send, n_read,
                    rd_result, sideVars >>

\* WebSocket::close_with_reason and WebSocketSender::close_with_reason (and
\* close(), which passes NormalClosure and ""): the sender is consumed; called
\* on the facade, the receiver goes with it.
CloseWithReason(req) ==
    /\ sender_alive /\ ~panicked
    /\ IF ~close_with_reason_proceeds(req.code)
       THEN /\ panicked' = TRUE
            /\ UNCHANGED << close_calls, ready_state, guard_closed,
                            sender_alive, facade, receiver_alive,
                            guard_dropped >>
       ELSE /\ close_calls' =
                 LET issued == Append(close_calls,
                                      [code |-> CloseCodeToU16(req.code),
                                       reason |-> req.reason])
                 IN IF facade \/ ~receiver_alive
                    THEN GuardDrop(issued, closed_set(guard_closed))
                    ELSE issued
            /\ ready_state' = ReadyStateAfterClose
            /\ guard_closed' = closed_set(guard_closed)
            /\ sender_alive' = FALSE
            /\ facade' = FALSE
            /\ receiver_alive' = IF facade THEN FALSE ELSE receiver_alive
            /\ guard_dropped' = (facade \/ ~receiver_alive)
            /\ UNCHANGED panicked
    /\ UNCHANGED << interface, recvVars, pin, stream_supported,
                    standard_supported, conn, info_interface, sink_closed >>
    /\ UNCHANGED << ioVars, sideVars >>

\* WebSocket::close and WebSocketSender::close
Close == CloseWithReason(NormalRequest)

\* Sink::poll_close of the sender (also AsyncWrite::poll_shutdown), through
\* the facade or the split sender: socket.close() for Standard,
\* writer.close() for Stream.
PollClose ==
    /\ sender_alive /\ ~panicked /\ ~sink_closed
    /\ close_calls' = Append(close_calls, DefaultClose)
    /\ ready_state' = ReadyStateAfterClose
    /\ guard_closed' = poll_close_flag(guard_closed)
    /\ sink_closed' = TRUE
    /\ UNCHANGED << interface, sender_alive, recvVars, pin, stream_supported,
                    standard_supported, conn, info_interface, facade, receiver_alive,
                    guard_dropped, panicked >>
    /\ UNCHANGED << ioVars, sideVars >>

\* The WebSocket is dropped whole.
DropFacade ==
    /\ facade /\ ~panicked
    /\ facade' = FALSE
    /\ sender_alive' = FALSE
    /\ receiver_alive' = FALSE
    /\ guard_dropped' = TRUE
    /\ close_calls' = GuardDrop(close_calls, guard_closed)
    /\ ready_state' = IF guard_closed THEN ready_state ELSE ReadyStateAfterClose
    /\ UNCHANGED << interface, guard_closed, recvVars, pin, stream_supported,
                    standard_supported, conn, info_interface, sink_closed, panicked >>
    /\ UNCHANGED << ioVars, sideVars >>

\* The split-off WebSocketSender is dropped.
DropSender ==
    /\ ~facade /\ sender_alive /\ ~panicked
    /\ sender_alive' = FALSE
    /\ guard_dropped' = ~receiver_alive
    /\ close_calls' = IF receiver_alive THEN close_calls
                      ELSE GuardDrop(close_calls, guard_closed)
    /\ ready_state' = IF receiver_alive \/ guard_closed THEN ready_state
                      ELSE ReadyStateAfterClose
    /\ UNCHANGED << interface, guard_closed, recvVars, pin, stream_supported,
                    standard_supported, conn, info_interface, facade, receiver_alive,
                    sink_closed, panicked >>
    /\ UNCHANGED << ioVars, sideVars >>

\* The split-off WebSocketReceiver is dropped.
DropReceiver ==
    /\ ~facade /\ receiver_alive /\ ~panicked
    /\ receiver_alive' = FALSE
    /\ guard_dropped' = ~sender_alive
    /\ close_calls' = IF sender_alive THEN close_calls
                      ELSE GuardDrop(close_calls, guard_closed)
    /\ ready_state' = IF sender_alive \/ guard_closed THEN ready_state
                      ELSE ReadyStateAfterClose
    /\ UNCHANGED << interface, guard_closed, recvVars, pin, stream_supported,
                    standard_supported, conn, info_interface, facade, sender_alive,
                    sink_closed, panicked >>
    /\ UNCHANGED << ioVars, sideVars >>

\* The close frame the echo server answers a close call with, as the browser
\* reports it: the code and reason of the call (1005 when it named no code),
\* cleanly.
EchoEvent(call) ==
    [code |-> IF call.code = NoCode THEN 1005 ELSE call.code,
     reason |-> call.reason, was_clean |-> TRUE]
EchoOutcome(call) ==
    [ok |-> TRUE, closeCode |-> IF call.code = NoCode THEN 1005 ELSE call.code,
     reason |-> call.reason, msg |-> ""]

\* The closing handshake completes: the peer has answered the first close
\* call made on the open transport.
CloseEcho ==
    /\ close_calls # <<>>
    /\ \/ ready_state = "CLOSING" /\ OnClose(EchoEvent(close_calls[1]))
       \/ StreamClosedSettle(EchoOutcome(close_calls[1]))

LifeNext ==
    \/ \E opened \in BOOLEAN : Connect(opened)
    \/ IntoSplit
    \/ \E req \in CloseRequests : CloseWithReason(req)
    \/ Close
    \/ PollClose
    \/ DropFacade
    \/ DropSender
    \/ DropReceiver
    \/ \E event \in CloseEvents : OnClose(event)
    \/ \E outcome \in StreamClosedOutcomes : StreamClosedSettle(outcome)
    \/ CloseEcho

LifeSpec == LifeInit /\ [][LifeNext]_vars

(***************************************************************************)
(* The handles of a connection and what outlives them: the life cycle      *)
(* together with incoming messages, receive calls and closed() observers.  *)
(***************************************************************************)
\* A builder with no interface pinned, in a browser that has WebSocket and
\* may have WebSocketStream.
HandleInit ==
    /\ LifeInit
    /\ pin = None
    /\ standard_supported

HandleNext ==
    \/ \E opened \in BOOLEAN : Connect(opened)
    \/ IntoSplit
    \/ Close
    \/ PollClose
    \/ DropFacade
    \/ DropSender
    \/ DropReceiver
    \/ \E event \in CloseEvents : OnClose(event)
    \/ \E outcome \in StreamClosedOutcomes : StreamClosedSettle(outcome)
    \/ CloseEcho
    \/ \E kind \in MsgKinds, len \in 0..MaxMsgLen : OnMsg(kind, len)
    \/ PollNext
    \/ CallClosed(1)
    \/ PollClosed(1)

HandleSpec == HandleInit /\ [][HandleNext]_vars

\* The executor polls the Closed future that is awaited, and the browser
\* completes the closing handshake of a transport that was asked to close.
FairHandleSpec == HandleSpec /\ WF_vars(PollClosed(1)) /\ WF_vars(CloseEcho)

(***************************************************************************)
(* Properties of the Standard (credit pool) adapter.                       *)
(***************************************************************************)
RECURSIVE QueuedBytes(_)
\* Total byte length of the messages of a queue.
QueuedBytes(q) == IF q = <<>> THEN 0 ELSE MsgLen(Head(q).msg) + QueuedBytes(Tail(q))

\* C1: the bytes queued but not yet dequeued by the caller never exceed the
\* receive ceiling B, however arrivals and dequeues interleave.
C1_BufferedWithinCeiling ==
    interface = "Standard" => QueuedBytes(rx) <= receive_buffer_size

\* The queue holds several messages that fill the ceiling exactly.
C1_Witness ==
    /\ interface = "Standard"
    /\ Len(rx) >= 2
    /\ receive_buffer_size >= 2
    /\ QueuedBytes(rx) = receive_buffer_size

C3_NoDeliveryAfterOverflow ==
    [][ overflow.at # 0 => n_delivered' = n_delivered ]_vars

\* C3 as amended: once an overflow has forced closure, no message that arrived
\* at or after the overflow is ever queued or delivered; what later receive
\* calls return are messages queued before the overflow.
C3_OnlyEarlierMessagesAfterOverflow ==
    overflow.at # 0 =>
        /\ \A i \in 1..Len(rx) : rx[i].seq < overflow.at
        /\ n_delivered < overflow.at
        /\ recv_result.tag = "Msg" => Unwrap(recv_result.item).seq < overflow.at

\* A message was returned to the caller after the overflow.
C3_Witness ==
    /\ overflow.at # 0
    /\ n_delivered > overflow.delivered
    /\ recv_result.tag = "Msg"

\* C4: a receive-buffer overflow issues a close carrying MessageTooBig (1009)
\* to the native transport.
C4_OverflowClosesTransport ==
    overflow.at # 0 =>
        \E i \in 1..Len(close_calls) : close_calls[i].code = 1009

\* C5: the k-th message returned to the caller is the k-th message the
\* transport produced: no reordering, no duplication, no gap.
C5_DeliveredInArrivalOrder ==
    [][ n_delivered' # n_delivered =>
          /\ n_delivered' = n_delivered + 1
          /\ recv_result'.tag = "Msg"
          /\ Unwrap(recv_result'.item).seq = n_delivered'
          /\ Unwrap(recv_result'.item) = Head(rx)
          /\ rx' = Tail(rx)
      ]_vars

\* Two messages were delivered while another was buffered behind them.
C5_Witness ==
    /\ n_delivered >= 2
    /\ rx # <<>>
    /\ recv_result.tag = "Msg"

\* C6: while the ceiling is at least the total workload, no overflow occurs,
\* every produced message is either delivered or still queued, end-of-stream
\* is returned only after all of them were delivered, and a failure is
\* returned only after an unclean closure.
C6_GenerousCeilingDeliversAll ==
    (interface = "Standard" /\ produced_bytes <= receive_buffer_size) =>
        /\ overflow.at = 0
        /\ closed_rx # Some(OverflowReason)
        /\ n_delivered + Len(rx) = n_produced
        /\ recv_result.tag = "End" =>
              /\ n_delivered = n_produced
              /\ IsSome(closed_rx) /\ Unwrap(closed_rx).was_clean
        /\ recv_result.tag = "Err" =>
              /\ n_delivered = n_produced
              /\ IsSome(closed_rx) /\ ~Unwrap(closed_rx).was_clean

\* After a clean close every one of several messages was received, then
\* end-of-stream.
C6_Witness ==
    /\ interface = "Standard"
    /\ produced_bytes <= receive_buffer_size
    /\ produced_bytes >= 2
    /\ n_produced >= 2
    /\ n_delivered = n_produced
    /\ recv_result.tag = "End"

\* C7: a receive on the exhausted, closed queue returns end-of-stream if the
\* recorded reason is clean, a connection-reset failure whose text is the
\* recorded reason if it is unclean, and a failure if no reason is recorded;
\* and a terminal result is returned in no other situation.
C7_TerminalResultFollowsReason ==
    [][ /\ TerminalResult(None).tag = "Err"
        /\ (recv_result' # recv_result /\ rx = <<>> /\ ~tx) =>
              /\ (IsSome(closed_rx) /\ Unwrap(closed_rx).was_clean) =>
                    recv_result'.tag = "End"
              /\ (IsSome(closed_rx) /\ ~Unwrap(closed_rx).was_clean) =>
                    /\ recv_result'.tag = "Err"
                    /\ recv_result'.kind = "ConnectionReset"
                    /\ recv_result'.text = Unwrap(closed_rx).reason
              /\ ~IsSome(closed_rx) => recv_result'.tag = "Err"
        /\ (recv_result' # recv_result /\ recv_result'.tag \in {"End", "Err"}) =>
              (rx = <<>> /\ ~tx)
      ]_vars

\* The queue was drained after an unclean closure and the failure carries the
\* reason's text.
C7_Witness ==
    /\ n_delivered >= 1
    /\ recv_result.tag = "Err"
    /\ recv_result.kind = "ConnectionReset"
    /\ recv_result.text = "receive buffer overflow"
    /\ closed_rx = Some(OverflowReason)

\* C8: once a closure reason has been recorded, no later event changes it.
C8_ReasonImmutable ==
    [][ IsSome(closed_rx) => closed_rx' = closed_rx ]_vars

\* C9: all closed() observers that have resolved hold the identical
\* ClosedReason.
C9_ObserversAgree ==
    \A o, p \in Observers :
        (observers[o].state = "resolved" /\ observers[p].state = "resolved")
            => observers[o].reason = observers[p].reason

\* A closure has been recorded for the connection.
ClosureRecorded ==
    IF interface = "Standard" THEN IsSome(closed_rx) ELSE IsSome(ws_closed)

\* C10: a closed() observer is resolved only if a closure has been recorded
\* (it stays pending until then), and once a closure has been recorded every
\* outstanding observer resolves with a ClosedReason: from some point on none
\* is left pending.
C10_ObserversConverge ==
    /\ [](\A o \in Observers :
            observers[o].state = "resolved" =>
                (ClosureRecorded /\ IsSome(observers[o].reason)))
    /\ <>[](ClosureRecorded =>
                \A o \in Observers : observers[o].state # "pending")

\* An observer resolved, with the reason recorded by an overflow, while
\* another one is still outstanding.
C10_Witness ==
    /\ interface = "Standard"
    /\ observers[1].state = "resolved"
    /\ observers[1].reason = Some(OverflowReason)
    /\ observers[2].state = "pending"

(***************************************************************************)
(* Send path of both adapters, against a peer that echoes every frame.     *)
(***************************************************************************)
Msg(kind, data) == [kind |-> kind, data |-> data]

\* JsValue::from_str and Uint8Array::from: what the facade's Sink<&str>,
\* Sink<&[u8]> and Sink<Msg> hand to the adapter.
JsString(data) == [js |-> "string", data |-> data]
JsUint8Array(data) == [js |-> "Uint8Array", data |-> data]
JsFromMsg(m) ==
    IF m.kind = "Text" THEN JsString(m.data) ELSE JsUint8Array(m.data)

\* The frame the transport sends for an item: send_with_js_u8_array and
\* send_with_str (Standard), write_with_chunk (Stream).
FrameOf(item) ==
    [opcode |-> IF item.js = "string" THEN "text" ELSE "binary",
     data |-> item.data]

\* What the browser hands over for a received frame: a string for a text
\* frame, an ArrayBuffer for a binary one (binaryType is arraybuffer).
EventData(frame) ==
    [js |-> IF frame.opcode = "text" THEN "string" ELSE "ArrayBuffer",
     data |-> frame.data]

\* on_msg's decoding of event.data.
MsgFromEventData_all_text(d) == Msg("Text", d.data)
MsgFromEventData(d) ==
    IF d.js = "ArrayBuffer" THEN Msg("Binary", d.data) ELSE Msg("Text", d.data)

\* stream::Receiver::poll_next's decoding of a chunk.
MsgFromChunk(c) ==
    IF c.js = "string" THEN Msg("Text", c.data) ELSE Msg("Binary", c.data)

\* Msg::to_vec
to_vec(m) == m.data

\* Total payload length of a sequence of frames.
RECURSIVE FramesLen(_)
FramesLen(q) == IF q = <<>> THEN 0 ELSE Len(Head(q).data) + FramesLen(Tail(q))

\* WebSocket.bufferedAmount: the bytes handed to send() and not yet taken by
\* the network.
BufferedAmount == FramesLen(wire)

TransportOpen ==
    IF interface = "Standard" THEN ready_state = "OPEN" ELSE ws_closed = None

\* standard::Sender::wait_for_buffered_amount, one pass of its loop.
wait_for_buffered_amount_eager(state, amount, max_amount) ==
    IF state # "OPEN" THEN "Err" ELSE "Ok"
wait_for_buffered_amount_unchecked(state, amount, max_amount) ==
    IF amount <= max_amount THEN "Ok" ELSE "Pending"
wait_for_buffered_amount_lenient(state, amount, max_amount) ==
    IF state # "OPEN" THEN "Err"
    ELSE IF amount <= max_amount + 1 THEN "Ok"
    ELSE "Pending"
wait_for_buffered_amount_strict(state, amount, max_amount) ==
    IF state # "OPEN" THEN "Err"
    ELSE IF amount < max_amount THEN "Ok"
    ELSE "Pending"
wait_for_buffered_amount(state, amount, max_amount) ==
    IF state # "OPEN" THEN "Err"
    ELSE IF amount <= max_amount THEN "Ok"
    ELSE "Pending"

\* stream::Sender::poll_ready on its writing field.
StreamReady_forgiving(w) ==
    IF w = None THEN "Ok"
    ELSE IF Unwrap(w) = "pending" THEN "Pending"
    ELSE "Ok"
StreamReady(w) ==
    IF w = None THEN "Ok"
    ELSE IF Unwrap(w) = "pending" THEN "Pending"
    ELSE IF Unwrap(w) = "fulfilled" THEN "Ok"
    ELSE "Err"

\* Sink::poll_ready of the adapter in use: its result, and the sender's
\* writing field afterwards (Standard: the wait sleeping until its next pass).
PollReadyResult ==
    IF interface = "Standard"
    THEN wait_for_buffered_amount(ready_state, BufferedAmount, send_buffer_size)
    ELSE StreamReady(writing)

WritingAfterPollReady ==
    IF PollReadyResult # "Pending" THEN None
    ELSE IF interface = "Standard" THEN Some("sleeping")
    ELSE writing

\* stream::Sender::start_send panics while a write is still recorded.
start_send_never_panics(w) == FALSE
start_send_panics(w) == IsSome(w)

\* Sink::start_send of the adapter in use for message m, w being the Stream
\* sender's writing field at the call.
Submit(m, w) ==
    IF interface = "Stream" /\ start_send_panics(w)
    THEN /\ panicked' = TRUE
         /\ writing' = w
         /\ UNCHANGED << sent, wire, native_pending >>
    ELSE /\ sent' = Append(sent, m)
         /\ wire' = IF TransportOpen THEN Append(wire, FrameOf(JsFromMsg(m)))
                    ELSE wire
         /\ writing' = IF interface = "Stream" THEN Some("pending") ELSE w
         /\ native_pending' = IF interface = "Stream" THEN native_pending + 1
                              ELSE native_pending
         /\ UNCHANGED panicked

sendFrame == << interface, receive_buffer_size, ready_state, permits, tx, rx,
                closed_rx, ws_closed, guard_closed, sender_alive, close_calls,
                observers, recv_result, n_produced, produced_bytes,
                n_delivered, overflow, pin, stream_supported,
                standard_supported, conn, info_interface, facade,
                receiver_alive, sink_closed, guard_dropped, mode,
                send_buffer_size, readable, reading, read_buf, n_read,
                rd_result, sideVars >>

\* Sink::poll_ready through the facade or the sender half.
PollReady ==
    /\ sender_alive /\ ~panicked
    /\ io_send' = [SendResult("poll_ready", PollReadyResult, 0)
                    EXCEPT !.resumed = IsSome(writing)]
    /\ writing' = WritingAfterPollReady
    /\ UNCHANGED << sendFrame, sent, wire, native_pending, panicked >>

\* Sink::start_send of a message (Sink<&str>, Sink<&[u8]>, Sink<Msg>).
StartSend(kind, len) ==
    /\ mode = "msg"
    /\ sender_alive /\ ~panicked
    /\ Len(sent) < MaxSends
    /\ Submit(Msg(kind, TestData(Len(sent) + 1, len)), writing)
    /\ io_send' = SendResult("start_send", IF panicked' THEN "Panic" ELSE "Ok", 0)
    /\ UNCHANGED sendFrame

\* AsyncWrite::poll_write of a buffer of len bytes.
PollWrite(len) ==
    /\ mode = "bytes"
    /\ sender_alive /\ ~panicked
    /\ Len(sent) < MaxSends
    /\ IF PollReadyResult = "Ok"
       THEN /\ Submit(Msg("Binary", TestData(Len(sent) + 1, len)),
                      WritingAfterPollReady)
            /\ io_send' = [SendResult("poll_write",
                                      IF panicked' THEN "Panic" ELSE "Ok", len)
                            EXCEPT !.resumed = IsSome(writing)]
       ELSE /\ io_send' = [SendResult("poll_write", PollReadyResult, 0)
                            EXCEPT !.resumed = IsSome(writing)]
            /\ writing' = WritingAfterPollReady
            /\ UNCHANGED << sent, wire, native_pending, panicked >>
    /\ UNCHANGED sendFrame

\* The native write promise of the Stream transport settles; it can only be
\* rejected once the connection has gone.
StreamWriteSettle(ok) ==
    /\ interface = "Stream"
    /\ native_pending > 0
    /\ writing = Some("pending")
    /\ ~ok => ws_closed # None
    /\ writing' = Some(IF ok THEN "fulfilled" ELSE "rejected")
    /\ native_pending' = native_pending - 1
    /\ UNCHANGED << sendFrame, sent, wire, io_send, panicked >>

(***************************************************************************)
(* Receive path against the echoing peer, and the byte-stream adapter.     *)
(***************************************************************************)
\* Standard: the peer's echo of the oldest frame arrives as a message event.
EchoArrive ==
    /\ interface = "Standard"
    /\ ready_state \in {"OPEN", "CLOSING"}
    /\ wire # <<>>
    /\ wire' = Tail(wire)
    /\ OnMsgHandler(MsgFromEventData(EventData(Head(wire))))
    /\ UNCHANGED << interface, receive_buffer_size, ready_state, ws_closed,
                    guard_closed, sender_alive, close_calls, observers,
                    recv_result, n_delivered, lifeVars, sideVars, mode,
                    send_buffer_size, sent, writing, native_pending, readable,
                    reading, io_send, read_buf, n_read, rd_result >>

\* Stream: the peer's echo of the oldest frame is queued in the readable.
StreamChunkArrive ==
    /\ interface = "Stream"
    /\ ws_closed = None
    /\ wire # <<>>
    /\ wire' = Tail(wire)
    /\ readable' = Append(readable, EventData(Head(wire)))
    /\ n_produced' = n_produced + 1
    /\ produced_bytes' = produced_bytes + Len(Head(wire).data)
    /\ UNCHANGED << interface, receive_buffer_size, ready_state, permits, tx,
                    rx, closed_rx, ws_closed, guard_closed, sender_alive,
                    close_calls, observers, recv_result, n_delivered,
                    overflow, lifeVars, sideVars, mode, send_buffer_size, sent, writing,
                    native_pending, reading, io_send, read_buf, n_read,
                    rd_result >>

\* The promise returned by reader.read().
ReadPromise(state, chunk) == [state |-> state, chunk |-> chunk]

\* Stream: a pending read() settles: rejected once the stream has errored,
\* else with the oldest chunk, else done once the stream has closed.
StreamReadSettle ==
    /\ interface = "Stream"
    /\ reading = Some(ReadPromise("pending", None))
    /\ IF IsSome(ws_closed) /\ ~Unwrap(ws_closed).ok
       THEN /\ reading' = Some(ReadPromise("rejected", None))
            /\ readable' = <<>>
       ELSE IF readable # <<>>
       THEN /\ reading' = Some(ReadPromise("value", Some(Head(readable))))
            /\ readable' = Tail(readable)
       ELSE /\ IsSome(ws_closed)
            /\ reading' = Some(ReadPromise("done", None))
            /\ UNCHANGED readable
    /\ UNCHANGED << interface, receive_buffer_size, ready_state, permits, tx,
                    rx, closed_rx, ws_closed, guard_closed, sender_alive,
                    close_calls, observers, recv_result, n_produced,
                    produced_bytes, n_delivered, overflow, lifeVars, sideVars, mode,
                    send_buffer_size, sent, wire, writing, native_pending,
                    io_send, read_buf, n_read, rd_result >>

\* stream::Receiver::poll_next: its result for the reading field r (a call
\* with no read in flight issues one and finds it pending).
StreamNextResult(r) ==
    IF r = None \/ Unwrap(r).state = "pending"
    THEN Result("Pending", None, "", "")
    ELSE IF Unwrap(r).state = "value"
    THEN Result("Msg", Some([seq |-> n_delivered + 1,
                             msg |-> MsgFromChunk(Unwrap(Unwrap(r).chunk))]),
                "", "")
    ELSE IF Unwrap(r).state = "done" THEN Result("End", None, "", "")
    ELSE Result("Err", None, "ConnectionReset", "")

\* ... and the reading field it leaves behind.
ReadingAfterNext_kept(r) ==
    IF r = None THEN Some(ReadPromise("pending", None)) ELSE r
ReadingAfterNext(r) ==
    IF r = None \/ Unwrap(r).state = "pending"
    THEN Some(ReadPromise("pending", None))
    ELSE None

\* Stream adapter: Receiver::poll_next called for a message.
StreamPollNext ==
    /\ interface = "Stream"
    /\ mode = "msg"
    /\ recv_result' = StreamNextResult(reading)
    /\ reading' = ReadingAfterNext(reading)
    /\ n_delivered' = IF StreamNextResult(reading).tag = "Msg"
                      THEN n_delivered + 1 ELSE n_delivered
    /\ UNCHANGED << interface, receive_buffer_size, ready_state, permits, tx,
                    rx, closed_rx, ws_closed, guard_closed, sender_alive,
                    close_calls, observers, n_produced, produced_bytes,
                    overflow, lifeVars, sideVars, mode, send_buffer_size, sent, wire,
                    writing, native_pending, readable, io_send, read_buf,
                    n_read, rd_result >>

\* Standard adapter: Receiver::poll_next called for a message.
MsgPollNext ==
    /\ mode = "msg"
    /\ PollNext

\* poll_read's loop condition, evaluated on the buffer it has just filled:
\* while self.read_buf.is_empty().
keeps_pulling_never(buf) == FALSE
keeps_pulling_always(buf) == TRUE
keeps_pulling(buf) == buf = <<>>

\* The queue of the standard receiver after poll_read's loop has taken and
\* discarded the messages it does not stop at.
RECURSIVE SkipPulled(_)
SkipPulled(q) ==
    IF q # <<>> /\ keeps_pulling(to_vec(Head(q).msg)) THEN SkipPulled(Tail(q))
    ELSE q

Min(a, b) == IF a < b THEN a ELSE b

\* The part poll_read puts into a destination with cap bytes remaining ...
split_part(buf, cap) == SubSeq(buf, 1, Min(cap, Len(buf)))
\* Faulty variant of split_rest: the bytes handed out are kept as well.
split_rest_whole(buf, cap) == buf

\* ... and what it keeps in read_buf.
split_rest(buf, cap) == SubSeq(buf, Min(cap, Len(buf)) + 1, Len(buf))

\* The tail of poll_read: hand out a part of buf.
PutSlice(buf, cap, pulled) ==
    /\ rd_result' = ReadResult("Ok", split_part(buf, cap), pulled)
    /\ read_buf' = split_rest(buf, cap)
    /\ n_read' = n_read + Len(split_part(buf, cap))

\* AsyncRead::poll_read into a destination with cap bytes remaining.
PollRead(cap) ==
    /\ mode = "bytes"
    /\ receiver_alive /\ ~panicked
    /\ IF read_buf # <<>>
       THEN /\ PutSlice(read_buf, cap, 0)
            /\ UNCHANGED << rx, permits, n_delivered, reading >>
       ELSE IF interface = "Standard"
       THEN LET q == SkipPulled(rx) IN
            IF q # <<>>
            THEN /\ rx' = Tail(q)
                 /\ permits' = add_permits(permits, MsgLen(Head(q).msg))
                 /\ n_delivered' = n_delivered + (Len(rx) - Len(q)) + 1
                 /\ PutSlice(to_vec(Head(q).msg), cap, (Len(rx) - Len(q)) + 1)
                 /\ UNCHANGED reading
            ELSE /\ rx' = <<>>
                 /\ n_delivered' = n_delivered + Len(rx)
                 /\ rd_result' =
                       IF tx THEN ReadResult("Pending", <<>>, Len(rx))
                       ELSE IF TerminalResult(closed_rx).tag = "End"
                       THEN ReadResult("Ok", <<>>, Len(rx))
                       ELSE ReadResult("Err", <<>>, Len(rx))
                 /\ UNCHANGED << permits, read_buf, n_read, reading >>
       ELSE LET res == StreamNextResult(reading) IN
            IF res.tag = "Msg"
            THEN LET buf == to_vec(Unwrap(res.item).msg) IN
                 /\ n_delivered' = n_delivered + 1
                 /\ IF keeps_pulling(buf)
                    THEN /\ reading' = ReadingAfterNext(None)
                         /\ rd_result' = ReadResult("Pending", <<>>, 1)
                         /\ UNCHANGED << read_buf, n_read >>
                    ELSE /\ reading' = None
                         /\ PutSlice(buf, cap, 1)
                 /\ UNCHANGED << rx, permits >>
            ELSE /\ reading' = ReadingAfterNext(reading)
                 /\ rd_result' = ReadResult(IF res.tag = "End" THEN "Ok"
                                            ELSE res.tag, <<>>, 0)
                 /\ UNCHANGED << rx, permits, n_delivered, read_buf, n_read >>
    /\ UNCHANGED << interface, receive_buffer_size, ready_state, tx, closed_rx,
                    ws_closed, guard_closed, sender_alive, close_calls,
                    observers, recv_result, n_produced, produced_bytes,
                    overflow, lifeVars, sideVars, mode, send_buffer_size, sent, wire,
                    writing, native_pending, readable, io_send >>

\* A connection that connect() has just returned, used for messages or for
\* bytes, with a tight or the default receive ceiling.
IoInit ==
    /\ interface \in Interfaces
    /\ receive_buffer_size \in
          IF interface = "Standard"
          THEN {MaxReceiveBufferSize, DEFAULT_RECEIVE_BUFFER_SIZE}
          ELSE {DEFAULT_RECEIVE_BUFFER_SIZE}
    /\ ready_state = "OPEN"
    /\ permits = receive_buffer_size
    /\ tx = TRUE
    /\ rx = <<>>
    /\ closed_rx = None
    /\ ws_closed = None
    /\ guard_closed = FALSE
    /\ sender_alive = TRUE
    /\ close_calls = <<>>
    /\ observers = [o \in Observers |-> [state |-> "absent", reason |-> None]]
    /\ recv_result = Result("Idle", None, "", "")
    /\ n_produced = 0
    /\ produced_bytes = 0
    /\ n_delivered = 0
    /\ overflow = [at |-> 0, delivered |-> 0]
    /\ pin = Some(interface)
    /\ stream_supported = TRUE
    /\ standard_supported = TRUE
    /\ conn = ConnResult("Ok", "", "")
    /\ info_interface = interface
    /\ facade = TRUE
    /\ receiver_alive = TRUE
    /\ sink_closed = FALSE
    /\ guard_dropped = FALSE
    /\ panicked = FALSE
    /\ mode \in {"msg", "bytes"}
    /\ send_buffer_size = MaxSendBufferSize
    /\ IoIdle

IoNext ==
    \/ PollReady
    \/ \E kind \in MsgKinds, len \in 0..MaxBufLen : StartSend(kind, len)
    \/ \E len \in 0..MaxBufLen : PollWrite(len)
    \/ \E ok \in BOOLEAN : StreamWriteSettle(ok)
    \/ EchoArrive
    \/ StreamChunkArrive
    \/ StreamReadSettle
    \/ MsgPollNext
    \/ StreamPollNext
    \/ \E cap \in 1..MaxCap : PollRead(cap)
    \/ \E event \in CloseEvents : OnClose(event)
    \/ \E outcome \in StreamClosedOutcomes : StreamClosedSettle(outcome)

IoSpec == IoInit /\ [][IoNext]_vars

(***************************************************************************)
(* The byte-stream adapter alone: buffers written, echoed and read back,   *)
(* on the facade and on the receiver half after a split.                   *)
(***************************************************************************)
ReadInit ==
    /\ IoInit
    /\ mode = "bytes"
    /\ receive_buffer_size = DEFAULT_RECEIVE_BUFFER_SIZE

ReadNext ==
    \/ \E len \in 0..MaxReadLen : PollWrite(len)
    \/ StreamWriteSettle(TRUE)
    \/ EchoArrive
    \/ StreamChunkArrive
    \/ StreamReadSettle
    \/ \E cap \in 1..MaxCap : PollRead(cap)
    \/ IntoSplit

ReadSpec == ReadInit /\ [][ReadNext]_vars

(***************************************************************************)
(* The conversions between CloseCode and u16, applied to every u16.        *)
(***************************************************************************)
U16Max == 65535

\* No connection: a builder, and any u16 to convert.
CodecInit ==
    /\ interface = "Unconnected"
    /\ receive_buffer_size = DEFAULT_RECEIVE_BUFFER_SIZE
    /\ ready_state = "CONNECTING"
    /\ permits = receive_buffer_size
    /\ tx = TRUE
    /\ rx = <<>>
    /\ closed_rx = None
    /\ ws_closed = None
    /\ guard_closed = FALSE
    /\ sender_alive = FALSE
    /\ close_calls = <<>>
    /\ observers = [o \in Observers |-> [state |-> "absent", reason |-> None]]
    /\ recv_result = Result("Idle", None, "", "")
    /\ n_produced = 0
    /\ produced_bytes = 0
    /\ n_delivered = 0
    /\ overflow = [at |-> 0, delivered |-> 0]
    /\ pin = None
    /\ stream_supported = TRUE
    /\ standard_supported = TRUE
    /\ conn = ConnResult("builder", "", "")
    /\ info_interface = "Unconnected"
    /\ facade = FALSE
    /\ receiver_alive = FALSE
    /\ sink_closed = FALSE
    /\ guard_dropped = FALSE
    /\ panicked = FALSE
    /\ mode = "msg"
    /\ send_buffer_size = DEFAULT_SEND_BUFFER_SIZE
    /\ sent = <<>>
    /\ wire = <<>>
    /\ writing = None
    /\ native_pending = 0
    /\ readable = <<>>
    /\ reading = None
    /\ io_send = SendResult("none", "Idle", 0)
    /\ read_buf = <<>>
    /\ n_read = 0
    /\ rd_result = ReadResult("Idle", <<>>, 0)
    /\ u16_value \in 0..U16Max
    /\ close_code = None
    /\ u16_back = None
    /\ flushing = None

connVars == << interface, receive_buffer_size, ready_state, permits, tx, rx,
               closed_rx, ws_closed, guard_closed, sender_alive, close_calls,
               observers, recv_result, n_produced, produced_bytes,
               n_delivered, overflow, lifeVars, ioVars, flushing >>

\* CloseCode::from(value)
FromU16 ==
    /\ close_code = None
    /\ close_code' = Some(CloseCodeFromU16(u16_value))
    /\ UNCHANGED << u16_value, u16_back, connVars >>

\* u16::from(code)
IntoU16 ==
    /\ IsSome(close_code)
    /\ u16_back = None
    /\ u16_back' = Some(CloseCodeToU16(Unwrap(close_code)))
    /\ UNCHANGED << u16_value, close_code, connVars >>

CodecNext ==
    \/ FromU16
    \/ IntoU16

CodecSpec == CodecInit /\ [][CodecNext]_vars

(***************************************************************************)
(* The Standard sender alone against the echoing peer, with the timer of   *)
(* its readiness wait.                                                     *)
(***************************************************************************)
SendInit ==
    /\ IoInit
    /\ interface = "Standard"
    /\ receive_buffer_size = DEFAULT_RECEIVE_BUFFER_SIZE

\* sleep(SEND_BUFFER_CHECK_INTERVAL) has elapsed and woken the task, which
\* polls the wait kept in self.writing: the next pass of its loop.
Repoll ==
    /\ IsSome(writing)
    /\ PollReady

SendNext ==
    \/ PollReady
    \/ \E kind \in MsgKinds, len \in 0..MaxBufLen : StartSend(kind, len)
    \/ \E len \in 0..MaxBufLen : PollWrite(len)
    \/ EchoArrive
    \/ \E event \in CloseEvents : OnClose(event)

SendSpec == SendInit /\ [][SendNext]_vars

\* The timer fires and the executor runs the woken task.
FairSendSpec == SendSpec /\ WF_vars(Repoll)

(***************************************************************************)
(* Sink::poll_flush, and the sender with flushes between its submits.      *)
(***************************************************************************)
\* writer.ready as poll_flush finds it: rejected once the stream has errored,
\* pending while the stream applies backpressure (a write is in flight),
\* fulfilled otherwise.  A promise that has settled stays settled.
WriterReady ==
    IF IsSome(ws_closed) /\ ~Unwrap(ws_closed).ok THEN "rejected"
    ELSE IF native_pending > 0 /\ ws_closed = None THEN "pending"
    ELSE "fulfilled"

\* stream::Sender::poll_flush on its flushing field f: a call with no future
\* recorded creates one from writer.ready() and finds it pending on this
\* first poll.
StreamFlush(f) ==
    IF f = None \/ Unwrap(f) = "pending" THEN "Pending"
    ELSE IF Unwrap(f) = "fulfilled" THEN "Ok"
    ELSE "Err"

\* ... and the flushing field it leaves behind.
FlushingAfterFlush(f) ==
    IF f = None THEN Some(WriterReady)
    ELSE IF Unwrap(f) = "pending" THEN f
    ELSE None

flushFrame == << interface, receive_buffer_size, ready_state, permits, tx, rx,
                 closed_rx, ws_closed, guard_closed, sender_alive, close_calls,
                 observers, recv_result, n_produced, produced_bytes,
                 n_delivered, overflow, pin, stream_supported,
                 standard_supported, conn, info_interface, facade,
                 receiver_alive, sink_closed, guard_dropped, mode,
                 send_buffer_size, readable, reading, read_buf, n_read,
                 rd_result, codecVars, sent, wire, writing, native_pending,
                 panicked >>

\* Sink::poll_flush through the facade or the sender half: Ready(Ok(())) on
\* the Standard adapter, writer.ready() on the Stream adapter.
PollFlush ==
    /\ sender_alive /\ ~panicked
    /\ io_send' = SendResult("poll_flush",
                             IF interface = "Standard" THEN "Ok"
                             ELSE StreamFlush(flushing), 0)
    /\ flushing' = IF interface = "Standard" THEN flushing
                   ELSE FlushingAfterFlush(flushing)
    /\ UNCHANGED flushFrame

\* The ready promise a flush waits for settles: the backpressure has gone,
\* or the stream has errored.
FlushSettle ==
    /\ interface = "Stream"
    /\ flushing = Some("pending")
    /\ WriterReady # "pending"
    /\ flushing' = Some(WriterReady)
    /\ UNCHANGED << flushFrame, io_send >>

FlushInit ==
    /\ IoInit
    /\ mode = "msg"
    /\ receive_buffer_size = DEFAULT_RECEIVE_BUFFER_SIZE

FlushNext ==
    \/ PollReady
    \/ \E kind \in MsgKinds, len \in 0..MaxBufLen : StartSend(kind, len)
    \/ \E ok \in BOOLEAN : StreamWriteSettle(ok)
    \/ PollFlush
    \/ FlushSettle
    \/ EchoArrive
    \/ StreamChunkArrive
    \/ \E outcome \in StreamClosedOutcomes : StreamClosedSettle(outcome)

FlushSpec == FlushInit /\ [][FlushNext]_vars

(***************************************************************************)
(* Claims about the life cycle (LifeSpec).                                 *)
(***************************************************************************)
\* The close call that an accepted request issues.
IssuedFor(req) == [code |-> CloseCodeToU16(req.code), reason |-> req.reason]

\* C11: close(code, reason) is accepted only for NormalClosure or Other with
\* a value in 3000..4999: such a request issues its close; any other code
\* panics, with no close issued to the transport and the guard not marked.
C11_InvalidCodePanicsBeforeClose ==
    [][\A req \in CloseRequests :
          CloseWithReason(req) =>
              IF \/ req.code = CloseCodeNamed("NormalClosure")
                 \/ /\ req.code.variant = "Other"
                    /\ req.code.value \in 3000..4999
              THEN /\ ~panicked'
                   /\ Len(close_calls') > Len(close_calls)
                   /\ close_calls'[Len(close_calls) + 1] = IssuedFor(req)
              ELSE /\ panicked'
                   /\ close_calls' = close_calls
                   /\ guard_closed' = guard_closed]_vars

C11_Witness ==
    /\ panicked
    /\ close_calls = <<>>
    /\ ~guard_closed
    /\ ready_state = "OPEN"

\* C12: whatever the sequence of explicit close, sink-level close and drops,
\* the transport's close operation is issued at most once over the life of
\* a connection.
C12_CloseIssuedOnce ==
    Len(close_calls) <= 1

\* C13 as stated: while no explicit close(code, reason) has been made and a
\* half is alive, no close has been issued to the transport.
C13_NoCloseWhileHalfAlive ==
    (conn.tag = "Ok" /\ ~guard_closed /\ (sender_alive \/ receiver_alive))
        => close_calls = <<>>

\* C13: while neither an explicit close nor a sink-level close has been
\* made, no close is issued as long as a half is alive, and once the last
\* half is dropped exactly one close, naming no code and no reason, has been
\* issued.
C13_DropClosesWithDefault ==
    (conn.tag = "Ok" /\ ~guard_closed /\ ~sink_closed /\ ~panicked)
        => /\ (sender_alive \/ receiver_alive) => close_calls = <<>>
           /\ guard_dropped <=> ~(sender_alive \/ receiver_alive)
           /\ guard_dropped => close_calls = << DefaultClose >>

C13_Witness ==
    /\ conn.tag = "Ok"
    /\ ~guard_closed /\ ~sink_closed
    /\ ~sender_alive /\ ~receiver_alive
    /\ close_calls = << DefaultClose >>

\* A close that names a code has been issued: an explicit close.
ExplicitCloseIssued(calls) ==
    \E i \in 1..Len(calls) : calls[i].code # NoCode

\* C14: the guard's flag never goes back from true to false, every explicit
\* close of the sender sets it in the step that issues the close, and it is
\* true when the completion of such a close (the close event, the closed
\* promise settling) is delivered.
C14_GuardFlagMonotone ==
    [][/\ guard_closed => guard_closed'
       /\ (ExplicitCloseIssued(close_calls') /\ ~ExplicitCloseIssued(close_calls))
              => guard_closed'
       /\ (/\ ExplicitCloseIssued(close_calls)
           /\ \/ ready_state # "CLOSED" /\ ready_state' = "CLOSED"
              \/ ws_closed = None /\ ws_closed' # None)
              => guard_closed]_vars

C14_Witness ==
    /\ guard_closed
    /\ ExplicitCloseIssued(close_calls)
    /\ \/ interface = "Standard" /\ ready_state = "CLOSED"
       \/ interface = "Stream" /\ ws_closed # None

\* C15: connect() uses the pinned backend when it is available and fails
\* with Unsupported when it is not; with no pin it uses Stream when Stream is
\* available and otherwise Standard, failing with Unsupported when that is
\* not available either; interface() names the backend that was constructed.
C15_BackendSelection ==
    conn.tag # "builder" =>
        LET chosen == IF pin = Some("Stream") THEN "Stream"
                      ELSE IF pin = Some("Standard") THEN "Standard"
                      ELSE IF stream_supported THEN "Stream" ELSE "Standard"
            available == IF chosen = "Stream" THEN stream_supported
                         ELSE standard_supported
        IN IF available
           THEN /\ conn.tag = "Err" => conn.kind = "ConnectionRefused"
                /\ conn.tag = "Ok" => interface = chosen /\ info_interface = chosen
           ELSE /\ conn = ConnResult("Err", "Unsupported",
                              IF chosen = "Stream"
                              THEN "WebSocketStream not supported"
                              ELSE "WebSocket not supported")
                /\ interface = "Unconnected"

C15_Witness ==
    /\ conn.tag = "Ok"
    /\ pin = None
    /\ stream_supported /\ standard_supported
    /\ interface = "Stream"
    /\ info_interface = "Stream"

(***************************************************************************)
(* Claims about the send path and the byte-stream adapter (IoSpec).        *)
(***************************************************************************)
\* The bytes of all buffers written so far, in order.
RECURSIVE SentBytes(_)
SentBytes(q) == IF q = <<>> THEN <<>> ELSE Head(q).data \o SentBytes(Tail(q))

\* poll_read has returned zero bytes: the byte stream's end-of-stream.
ReadEOS == rd_result.tag = "Ok" /\ rd_result.part = <<>>

\* C16: against the echoing peer, the bytes the reads return are, in order,
\* the bytes of the written buffers, whatever the destination capacities,
\* and once the peer has echoed every written buffer a read returns zero
\* bytes only after all of those bytes have been returned.
C16_ByteRoundTrip ==
    mode = "bytes" =>
        /\ rd_result.tag = "Ok" =>
              rd_result.part = SubSeq(SentBytes(sent),
                                      n_read - Len(rd_result.part) + 1, n_read)
        /\ (ReadEOS /\ n_produced = Len(sent)) => n_read = Len(SentBytes(sent))

\* The sender is not ready: the send threshold is exceeded on the open
\* standard socket, or the Stream write is still pending.
SenderNotReady ==
    IF interface = "Standard"
    THEN ready_state = "OPEN" /\ BufferedAmount > send_buffer_size
    ELSE writing = Some("pending")

\* C17: a poll_write that completes has submitted exactly one binary message
\* whose payload is the whole buffer and reports the buffer's length; one
\* that does not complete has submitted nothing, and while the sender is not
\* ready the write is pending.
C17_WriteIsOneMessage ==
    [][\A len \in 0..MaxBufLen :
          PollWrite(len) =>
              /\ IF io_send'.tag = "Ok"
                 THEN /\ io_send'.n = len
                      /\ sent' = Append(sent, Msg("Binary",
                                                  TestData(Len(sent) + 1, len)))
                      /\ TransportOpen =>
                            wire' = Append(wire,
                                      [opcode |-> "binary",
                                       data |-> TestData(Len(sent) + 1, len)])
                 ELSE /\ sent' = sent
                      /\ wire' = wire
                      /\ native_pending' = native_pending
              /\ SenderNotReady => io_send'.tag = "Pending"]_vars

C17_Witness ==
    /\ interface = "Standard"
    /\ io_send.op = "poll_write"
    /\ io_send.tag = "Ok"
    /\ io_send.n > send_buffer_size
    /\ Len(sent) = 1
    /\ wire = << [opcode |-> "binary", data |-> sent[1].data] >>

\* C18: a poll_read into a destination of capacity at least one returns zero
\* bytes only when the receiver underneath has reported its end and nothing
\* is left in read_buf; a zero-length message does not make it do so.
C18_EOSOnlyAtEnd ==
    (mode = "bytes" /\ ReadEOS) =>
        /\ read_buf = <<>>
        /\ IF interface = "Standard"
           THEN rx = <<>> /\ ~tx /\ IsSome(closed_rx) /\ Unwrap(closed_rx).was_clean
           ELSE readable = <<>> /\ IsSome(ws_closed) /\ Unwrap(ws_closed).ok

C18_Witness ==
    /\ mode = "bytes"
    /\ ReadEOS
    /\ n_delivered = Len(sent)
    /\ n_read > 0
    /\ \E i \in 1..Len(sent) : sent[i].data = <<>>

\* C19: against the echoing peer, for both adapters, each message received
\* is the message sent at the same position: same variant, same payload.
C19_MessageRoundTrip ==
    (mode = "msg" /\ recv_result.tag = "Msg") =>
        /\ n_delivered <= Len(sent)
        /\ Unwrap(recv_result.item).msg = sent[n_delivered]

C19_Witness ==
    /\ mode = "msg"
    /\ recv_result.tag = "Msg"
    /\ n_delivered = 2
    /\ sent[1].kind # sent[2].kind
    /\ Unwrap(recv_result.item).msg.data # <<>>

\* C20: on the Stream adapter a submit made while the previous write has not
\* been observed as complete through poll_ready panics and issues no native
\* write, and at most one native write is outstanding at any time.
C20_OneWriteOutstanding ==
    /\ [](native_pending <= 1)
    /\ [][\A kind \in MsgKinds, len \in 0..MaxBufLen :
             (interface = "Stream" /\ IsSome(writing) /\ StartSend(kind, len))
                 => /\ panicked'
                    /\ sent' = sent
                    /\ wire' = wire
                    /\ native_pending' = native_pending]_vars

C20_Witness ==
    /\ interface = "Stream"
    /\ panicked
    /\ io_send.tag = "Panic"
    /\ native_pending = 1
    /\ Len(sent) = 1

(***************************************************************************)
(* Claims about send readiness of the Standard adapter.                    *)
(***************************************************************************)
\* C21: a readiness check of the Standard sender succeeds exactly when the
\* socket is open and its buffered amount is at most the send buffer size
\* (equality counts as ready); on a socket that is not open it fails with
\* ConnectionReset whatever the buffered amount; on an open socket above the
\* size it does neither and leaves the wait in place for the next pass.
C21_ReadinessGate ==
    [][(interface = "Standard" /\ PollReady) =>
         /\ (io_send'.tag = "Ok") <=>
               (ready_state = "OPEN" /\ BufferedAmount <= send_buffer_size)
         /\ ready_state # "OPEN" =>
               io_send'.tag = "Err" /\ io_send'.kind = "ConnectionReset"
         /\ (ready_state = "OPEN" /\ BufferedAmount > send_buffer_size) =>
               io_send'.tag = "Pending" /\ IsSome(writing')]_vars

\* A readiness check has succeeded with the buffered amount at the size.
C21_Witness ==
    /\ interface = "Standard"
    /\ ready_state = "OPEN"
    /\ io_send.op = "poll_ready" /\ io_send.tag = "Ok"
    /\ BufferedAmount = send_buffer_size
    /\ send_buffer_size > 0

\* The open socket's buffered amount is within the send buffer size.
WithinSendBuffer ==
    ready_state = "OPEN" /\ BufferedAmount <= send_buffer_size

\* C22: with the wait re-polled fairly, a pending readiness wait succeeds if
\* the socket stays open and its buffered amount eventually stays within the
\* send buffer size, and fails with ConnectionReset once the socket is no
\* longer open; while the socket is open and above the size the wait stays
\* pending, whatever number of passes it makes.
C22_WaitSettles ==
    /\ (<>[]WithinSendBuffer) =>
          (IsSome(writing) ~> (io_send.resumed /\ io_send.tag = "Ok"))
    /\ (IsSome(writing) /\ ready_state # "OPEN") ~>
          (io_send.resumed /\ io_send.tag = "Err"
             /\ io_send.kind = "ConnectionReset")
    /\ [][(IsSome(writing) /\ ready_state = "OPEN"
             /\ BufferedAmount > send_buffer_size) => IsSome(writing')]_vars

\* A wait that was pending has been polled again and has succeeded.
C22_Witness ==
    /\ interface = "Standard"
    /\ io_send.resumed /\ io_send.tag = "Ok"
    /\ writing = None

\* The closure recorded for the Standard connection is an unclean one.
ClosedUncleanly ==
    /\ interface = "Standard"
    /\ IsSome(closed_rx)
    /\ ~Unwrap(closed_rx).was_clean

\* C23: once the connection has closed uncleanly, a readiness check and a
\* write fail with ConnectionReset carrying the reason text of the closure,
\* and so does a receive that finds nothing queued; no send-side call made
\* after the closure reports success.
C23_FailWithClosureReason ==
    [][ClosedUncleanly =>
         /\ (PollReady \/ \E len \in 0..MaxBufLen : PollWrite(len)) =>
               /\ io_send'.tag = "Err"
               /\ io_send'.kind = "ConnectionReset"
               /\ io_send'.text = Unwrap(closed_rx).reason
         /\ (\E kind \in MsgKinds, len \in 0..MaxBufLen : StartSend(kind, len))
               => io_send'.tag # "Ok"
         /\ (MsgPollNext /\ rx = <<>>) =>
               recv_result' = Result("Err", None, "ConnectionReset",
                                     Unwrap(closed_rx).reason)]_vars

(***************************************************************************)
(* Claims about explicit close and the closure it leads to (LifeSpec).     *)
(***************************************************************************)
\* The numeric value of an acceptable close code, and the code a value an
\* acceptable code can have stands for.
C24_Value(code) == IF code.variant = "Other" THEN code.value ELSE 1000
C24_Code(v) ==
    IF v = 1000 THEN CloseCodeNamed("NormalClosure") ELSE CloseCodeOther(v)

\* C24: close(code, reason) with an acceptable code issues a close that
\* carries exactly the code's numeric value and exactly the reason; when the
\* peer completes the handshake of such a close, the closure then reported is
\* clean, with that code and that reason.
C24_CloseCarriesCodeAndReason ==
    /\ [][\A req \in CloseRequests \cup {NormalRequest} :
            (is_valid(req.code) /\ CloseWithReason(req)) =>
               /\ Len(close_calls') > Len(close_calls)
               /\ close_calls'[Len(close_calls) + 1] =
                     [code |-> C24_Value(req.code), reason |-> req.reason]]_vars
    /\ [][(CloseEcho /\ close_calls[1].code # NoCode) =>
            ClosedPoll' = Some(ClosedReason(C24_Code(close_calls[1].code),
                                            close_calls[1].reason, TRUE))]_vars

\* close(NormalClosure, "Goodbye!") has been answered by the peer.
C24_Witness ==
    /\ close_calls = << [code |-> 1000, reason |-> "Goodbye!"] >>
    /\ ClosedPoll = Some(ClosedReason(CloseCodeNamed("NormalClosure"),
                                      "Goodbye!", TRUE))

(***************************************************************************)
(* Claims about the closure reason reported (Spec).                        *)
(***************************************************************************)
\* The close code the numeric code of a transport signal stands for.
C25_Code(v) ==
    IF v = 1006 THEN CloseCodeNamed("AbnormalClosure") ELSE CloseCodeOther(v)

\* C25: the closure reason reported after a native closure signal carries
\* the signal's values: the close code its numeric code stands for, its
\* reason text, and for the Standard adapter its cleanliness flag; for the
\* Stream adapter a fulfilled closed promise is reported clean and a rejected
\* one as AbnormalClosure, unclean, with the error's message.
C25_ReasonMirrorsSignal ==
    /\ [][\A event \in CloseEvents :
            OnClose(event) =>
               ClosedPoll' = Some([code |-> C25_Code(event.code),
                                   reason |-> event.reason,
                                   was_clean |-> event.was_clean])]_vars
    /\ [][\A outcome \in StreamClosedOutcomes :
            StreamClosedSettle(outcome) =>
               ClosedPoll' =
                  IF outcome.ok
                  THEN Some([code |-> C25_Code(outcome.closeCode),
                             reason |-> outcome.reason, was_clean |-> TRUE])
                  ELSE Some([code |-> CloseCodeNamed("AbnormalClosure"),
                             reason |-> outcome.msg, was_clean |-> FALSE])]_vars

\* An observer has been told of the server's close: Other(3999), "CLOSE-123".
C25_Witness ==
    \E o \in Observers :
       /\ observers[o].state = "resolved"
       /\ observers[o].reason =
             Some([code |-> CloseCodeOther(3999), reason |-> "CLOSE-123",
                   was_clean |-> TRUE])

(***************************************************************************)
(* Claims about the close code conversions (CodecSpec).                    *)
(***************************************************************************)
\* C26: every u16 converts to a close code and that code converts back to
\* the same u16; the code is a named one exactly for 1000..1003 and
\* 1005..1015, and Other carrying the value for every other u16, among them
\* 1004 and 3000..4999.
C26_CodeRoundTrip ==
    /\ IsSome(close_code) =>
          IF u16_value \in (1000..1003) \cup (1005..1015)
          THEN Unwrap(close_code).variant # "Other"
          ELSE Unwrap(close_code) = [variant |-> "Other", value |-> u16_value]
    /\ IsSome(u16_back) => Unwrap(u16_back) = u16_value

\* 1004 has gone to Other(1004) and back.
C26_Witness ==
    /\ u16_value = 1004
    /\ close_code = Some([variant |-> "Other", value |-> 1004])
    /\ u16_back = Some(1004)

\* C27: close() on the unsplit connection does what splitting it and calling
\* the sender's close() does, which is close_with_reason(NormalClosure, ""):
\* one close with code 1000 and an empty reason is issued and the guard is
\* marked; on the unsplit connection the receiver goes with the sender; and
\* no drop that follows issues a further close.
C27_FacadeCloseIsSenderClose ==
    /\ [][Close =>
            /\ close_calls' =
                  Append(close_calls, [code |-> 1000, reason |-> ""])
            /\ guard_closed'
            /\ ~sender_alive' /\ ~facade'
            /\ receiver_alive' = (receiver_alive /\ ~facade)
            /\ guard_dropped' = ~receiver_alive']_vars
    /\ [][(guard_closed /\ (DropFacade \/ DropSender \/ DropReceiver)) =>
            close_calls' = close_calls]_vars

\* close() has consumed the connection: one close 1000 "", nothing alive.
C27_Witness ==
    /\ close_calls = << [code |-> 1000, reason |-> ""] >>
    /\ guard_closed /\ guard_dropped
    /\ ~sender_alive /\ ~receiver_alive /\ ~facade

(***************************************************************************)
(* Further claims about the Standard adapter's receive buffer (Spec).      *)
(***************************************************************************)
\* C28: with the receiver in place, the available permits and the bytes
\* queued always add up to the receive buffer size: an arrival of n bytes
\* that is granted and queued lowers the permits by n, a dequeue of an
\* n-byte message raises them by n, and an arrival that is refused, or that
\* comes after the queue was closed, leaves them as they were.
C28_CreditConservation ==
    /\ [](interface = "Standard" =>
            permits + QueuedBytes(rx) = receive_buffer_size)
    /\ [][\A kind \in MsgKinds, len \in 0..MaxMsgLen :
            OnMsg(kind, len) =>
               /\ permits' = IF len <= permits /\ tx THEN permits - len
                             ELSE permits
               /\ QueuedBytes(rx') = IF len <= permits /\ tx
                                     THEN QueuedBytes(rx) + len
                                     ELSE QueuedBytes(rx)]_vars
    /\ [][(PollNext /\ rx # <<>>) =>
            /\ permits' = permits + Len(Head(rx).msg.data)
            /\ QueuedBytes(rx') = QueuedBytes(rx) - Len(Head(rx).msg.data)]_vars

\* A message has been granted and dequeued, one was refused, and one came
\* after the queue was closed: all permits are back.
C28_Witness ==
    /\ interface = "Standard"
    /\ receive_buffer_size > 0
    /\ n_delivered >= 1
    /\ produced_bytes > receive_buffer_size
    /\ overflow.at # 0
    /\ n_produced > overflow.at
    /\ permits = receive_buffer_size

\* C29: once an overflow has discarded a message, the receiver never ends
\* normally: whatever follows, a later clean close event included, its
\* terminal result is a failure.
C29_OverflowNeverSilent ==
    (interface = "Standard" /\ overflow.at # 0) => recv_result.tag # "End"

(***************************************************************************)
(* Further claims about the byte-stream adapter (IoSpec).                  *)
(***************************************************************************)
\* The message a poll_read that starts with an empty read_buf stops at, when
\* it took k messages from the receiver.
LastPulled(k) ==
    IF interface = "Standard" THEN to_vec(rx[k].msg)
    ELSE to_vec(MsgFromChunk(Unwrap(Unwrap(reading).chunk)))

\* C30 as stated: a poll_read that starts with an empty read_buf takes at
\* most one message from the receiver, and exactly one when it returns bytes.
C30_OneMessagePerRead ==
    [][\A cap \in 1..MaxCap :
          (PollRead(cap) /\ read_buf = <<>>) =>
             /\ n_delivered' - n_delivered <= 1
             /\ rd_result'.part # <<>> => n_delivered' - n_delivered = 1]_vars

\* C30, amended: a poll_read that starts with an empty read_buf takes
\* messages until it has a non-empty one: every message taken before the
\* last is zero-length, the bytes handed out and kept are those of the last,
\* and a call that took only zero-length messages returns no bytes; the
\* Stream receiver yields at most one message per call, the Standard one as
\* many as are queued.
C30_PullsUntilNonEmpty ==
    [][\A cap \in 1..MaxCap :
          (PollRead(cap) /\ read_buf = <<>>) =>
             LET k == n_delivered' - n_delivered IN
             /\ k >= 0
             /\ interface = "Stream" => k <= 1
             /\ interface = "Standard" =>
                   /\ k <= Len(rx)
                   /\ \A i \in 1..(k - 1) : to_vec(rx[i].msg) = <<>>
             /\ rd_result'.part # <<>> =>
                   /\ k >= 1
                   /\ rd_result'.part \o read_buf' = LastPulled(k)
             /\ (k >= 1 /\ rd_result'.part = <<>>) =>
                   /\ LastPulled(k) = <<>>
                   /\ read_buf' = <<>>
                   /\ rd_result'.tag = "Ok" => ~tx]_vars

\* One call has skipped a zero-length message and returned bytes of the next.
C30_Witness ==
    /\ rd_result.tag = "Ok"
    /\ rd_result.part # <<>>
    /\ rd_result.pulled = 2

(***************************************************************************)
(* Claims about the partial-read buffer (ReadSpec).                        *)
(***************************************************************************)
\* C31: a poll_read that finds L > 0 bytes in read_buf and room for c bytes
\* takes no message from the receiver, hands out exactly the first min(c, L)
\* buffered bytes and keeps exactly the other L - min(c, L) bytes, in their
\* order; read_buf is empty afterwards exactly when c >= L.
C31_BufferedBytesFirst ==
    [][\A cap \in 1..MaxCap :
          (PollRead(cap) /\ read_buf # <<>>) =>
             LET L == Len(read_buf)
                 m == IF cap < L THEN cap ELSE L
             IN  /\ n_delivered' = n_delivered
                 /\ rx' = rx /\ reading' = reading /\ readable' = readable
                 /\ rd_result'.tag = "Ok"
                 /\ rd_result'.part = [j \in 1..m |-> read_buf[j]]
                 /\ read_buf' = [j \in 1..(L - m) |-> read_buf[m + j]]
                 /\ (read_buf' = <<>>) <=> (cap >= L)]_vars

\* A read served from read_buf alone has left a remainder behind.
C31_Witness ==
    /\ rd_result.tag = "Ok"
    /\ rd_result.pulled = 0
    /\ rd_result.part # <<>>
    /\ read_buf # <<>>

(***************************************************************************)
(* Claims about the Stream adapter's sender and receiver (IoSpec).         *)
(***************************************************************************)
\* C32: the Stream sender's readiness check succeeds at once when no write
\* is recorded; with a write recorded it stays pending (keeping the write)
\* until the native completion has settled, then succeeds if that was
\* fulfilled and fails with ConnectionReset if it was rejected, and in both
\* settled cases the recorded write is cleared, so that a submit may follow.
C32_StreamReadiness ==
    [][(interface = "Stream" /\ PollReady) =>
          /\ writing = None =>
                io_send'.tag = "Ok" /\ writing' = None
          /\ writing = Some("pending") =>
                io_send'.tag = "Pending" /\ writing' = writing
          /\ writing = Some("fulfilled") =>
                io_send'.tag = "Ok" /\ writing' = None
          /\ writing = Some("rejected") =>
                /\ io_send'.tag = "Err"
                /\ io_send'.kind = "ConnectionReset"
                /\ writing' = None
          /\ io_send'.tag # "Pending" => ~start_send_panics(writing')]_vars

\* A readiness check has reported the rejection of the write it waited for.
C32_Witness ==
    /\ interface = "Stream"
    /\ io_send.op = "poll_ready"
    /\ io_send.resumed
    /\ io_send.tag = "Err"
    /\ writing = None

\* The chunk held by a settled read() that poll_next has not yet looked at.
HeldChunks ==
    IF IsSome(reading) /\ Unwrap(reading).state = "value" THEN 1 ELSE 0

\* C33: the Stream receiver has at most one native read outstanding: a call
\* with no read recorded issues one, a call with a pending read reuses it
\* and takes nothing from the stream; every message delivered is the value
\* of one settled read, which is cleared on delivery; and no chunk taken
\* from a healthy stream is lost: the chunks arrived are those still queued,
\* the one held by a settled read and those delivered.
C33_OneReadPerResult ==
    /\ []((interface = "Stream" /\ ~(IsSome(ws_closed) /\ ~Unwrap(ws_closed).ok))
            => n_produced = Len(readable) + HeldChunks + n_delivered)
    /\ [][StreamPollNext =>
            /\ readable' = readable
            /\ reading = None =>
                  /\ reading' = Some(ReadPromise("pending", None))
                  /\ recv_result'.tag = "Pending"
            /\ (IsSome(reading) /\ Unwrap(reading).state = "pending") =>
                  reading' = reading /\ recv_result'.tag = "Pending"
            /\ recv_result'.tag # "Pending" =>
                  /\ IsSome(reading) /\ Unwrap(reading).state # "pending"
                  /\ reading' = None
            /\ recv_result'.tag = "Msg" =>
                  /\ Unwrap(reading).state = "value"
                  /\ Unwrap(recv_result'.item).msg
                       = MsgFromChunk(Unwrap(Unwrap(reading).chunk))
                  /\ n_delivered' = n_delivered + 1
            /\ recv_result'.tag # "Msg" => n_delivered' = n_delivered]_vars

\* A chunk has been delivered from a settled read while another chunk waits
\* in the stream.
C33_Witness ==
    /\ interface = "Stream"
    /\ recv_result.tag = "Msg"
    /\ n_delivered = 1
    /\ reading = None
    /\ readable # <<>>

\* C34: splitting the facade loses none of the bytes waiting in the
\* partial-read buffer: the receiver half starts with the facade's read_buf.
C34_SplitKeepsReadBuf ==
    [][IntoSplit => read_buf' = read_buf]_vars

(***************************************************************************)
(* Claims about the Standard adapter's closure bookkeeping.                *)
(***************************************************************************)
\* C35: on the Standard adapter, whenever the receive queue's sender has
\* been dropped a closure reason is recorded, and the receiver never reports
\* the failure it keeps for a closed queue without a reason.
C35_ClosedQueueHasReason ==
    interface = "Standard" =>
        /\ ~tx => IsSome(closed_rx)
        /\ ~(recv_result.tag = "Err" /\ recv_result.text = "WebSocket closed")

\* The receiver has reported a terminal result from a closed queue.
C35_Witness ==
    /\ interface = "Standard"
    /\ ~tx
    /\ rx = <<>>
    /\ recv_result.tag \in {"End", "Err"}

\* C36: on the Standard adapter, once the receiver half has been dropped and
\* the sender half is kept, a message arriving records no closure reason.
C36_NoReasonWithoutReceiver ==
    [][(/\ ~receiver_alive /\ sender_alive
        /\ \E kind \in MsgKinds, len \in 0..MaxMsgLen : OnMsg(kind, len))
          => closed_rx' = closed_rx]_vars

\* C37: on the Standard adapter a submit never suspends or fails, whatever
\* the queued-byte counter and the last readiness result were; and a submit
\* of n bytes made right after a successful readiness check, by the caller
\* or within poll_write, leaves at most send_buffer_size + n bytes queued in
\* the transport.
C37_SendBound ==
    /\ [][\A kind \in MsgKinds, len \in 0..MaxBufLen :
             (interface = "Standard" /\ StartSend(kind, len)) =>
                /\ io_send'.tag = "Ok"
                /\ sent' = Append(sent, Msg(kind, TestData(Len(sent) + 1, len)))
                /\ (io_send.op = "poll_ready" /\ io_send.tag = "Ok") =>
                      BufferedAmount' <= send_buffer_size + len]_vars
    /\ [][\A len \in 0..MaxBufLen :
             (interface = "Standard" /\ PollWrite(len) /\ io_send'.tag = "Ok") =>
                BufferedAmount' <= send_buffer_size + len]_vars

\* A write that passed its readiness check has filled the transport's queue
\* to the ceiling plus its length.
C37_Witness ==
    /\ interface = "Standard"
    /\ io_send.op = "poll_write"
    /\ io_send.tag = "Ok"
    /\ io_send.n = MaxBufLen
    /\ BufferedAmount = send_buffer_size + io_send.n

\* C38: the Standard receiver's terminal result is sticky: a receive call
\* made after one that reported end-of-stream reports end-of-stream again,
\* and one made after a reported failure reports a failure again.
C38_TerminalIsSticky ==
    [][(/\ interface = "Standard"
        /\ recv_result.tag \in {"End", "Err"}
        /\ PollNext)
          => recv_result'.tag = recv_result.tag]_vars

\* C39: on the Stream adapter, when poll_flush reports success no native
\* write is still pending.
C39_FlushMeansWritten ==
    [][(interface = "Stream" /\ PollFlush /\ io_send'.tag = "Ok")
          => native_pending' = 0]_vars

(***************************************************************************)
(* Claims about closed() observers and the handles (FairHandleSpec).       *)
(***************************************************************************)
\* The last handle of the connection goes away in this step.
LastHandleDropped ==
    \/ DropFacade
    \/ DropSender /\ ~receiver_alive
    \/ DropReceiver /\ ~sender_alive

\* C40: a closed() observer taken from the facade outlives the handles.
\* While it is pending, dropping the last handle of a connection that was
\* not closed explicitly issues the default close in that very step, and an
\* explicit close is issued on the call; once a close has been issued, the
\* pending observer eventually resolves, and it resolves with the closure
\* reason the adapter holds at that moment.
C40_ObserverOutlivesHandles ==
    /\ (observers[1].state = "pending" /\ close_calls # <<>>)
          ~> (observers[1].state = "resolved")
    /\ [][(observers[1].state = "pending" /\ LastHandleDropped /\ ~guard_closed)
             => close_calls' = Append(close_calls, DefaultClose)]_vars
    /\ [][(observers[1].state = "pending" /\ Close)
             => /\ Len(close_calls') = Len(close_calls) + 1
                /\ close_calls'[Len(close_calls')].code = 1000]_vars
    /\ [][(observers[1].state = "pending" /\ observers'[1].state = "resolved")
             => IsSome(ClosedPoll) /\ observers'[1].reason = ClosedPoll]_vars

\* Both halves were dropped without an explicit close, and the observer has
\* resolved with the peer's answer to the default close.
C40_Witness ==
    /\ observers[1].state = "resolved"
    /\ ~facade /\ ~sender_alive /\ ~receiver_alive
    /\ guard_dropped /\ ~guard_closed
    /\ close_calls = << DefaultClose >>
    /\ observers[1].reason =
          IF interface = "Standard"
          THEN Some(CloseEventReason(EchoEvent(DefaultClose)))
          ELSE StreamClosed(Some(EchoOutcome(DefaultClose)))

================================================================================
